---- MODULE Spec2Model ----
(***************************************************************************)
(* Model of the mirror strategy of kelp (plugins/mirrorStrategy.go):       *)
(* the update path (PreUpdate, UpdateWithOps, PostUpdate) and the fill     *)
(* handler (HandleFill) with its surplus ledger.                           *)
(*                                                                         *)
(* Numbers (model.Number) are integers counted in 1/Unit, i.e. decimals    *)
(* with MaxPrecision digits after the point; a precision p <= MaxPrecision *)
(* keeps multiples of 10^(MaxPrecision - p).                               *)
(***************************************************************************)
EXTENDS Integers, Sequences, FiniteSets, TLC

\* ------------------------------------------------------------------------
\* model.Number
\* ------------------------------------------------------------------------
MaxPrecision == 2
Unit == 100
EpsilonInv == 10000

Pow10(p) == IF p = 0 THEN 1 ELSE IF p = 1 THEN 10 ELSE IF p = 2 THEN 100 ELSE 1000

Abs(x) == IF x < 0 THEN 0 - x ELSE x

\* truncates n to p decimals
NumberByCappingPrecision(n, p) == n - (n % Pow10(MaxPrecision - p))

\* parses the decimal string of an offer at precision p
MustNumberFromString(n, p) == NumberByCappingPrecision(n, p)

Multiply(a, b) == (a * b) \div Unit

InvertNumber(a) == (Unit * Unit) \div a

\* n.Scale(num / den)
Scale(n, num, den) == (n * num) \div den

\* |a - b| <= epsilon, epsilon = 1 / EpsilonInv
EqualsPrecisionNormalized(a, b) == Abs(a - b) * EpsilonInv <= Unit

\* ------------------------------------------------------------------------
\* inputs of the model
\* ------------------------------------------------------------------------
Sides == {"bid", "ask"}
Prices == {250, 500}
Volumes == {50, 250}
OfferVolumes == {250}
Spreads == {0, 20}
Divisors == {1, 2}
BaseBalances == {100, 300}
QuoteBalances == {625, 1500}
SdexRet == {"op", "nil", "err"}

Levels == [price : Prices, volume : Volumes]

\* order book sides: bids strictly descending in price, asks strictly ascending
BidSeqs ==
    {<<>>} \cup {<<l>> : l \in Levels}
           \cup {<<a, b>> : a \in {l \in Levels : l.price = 500}, b \in {l \in Levels : l.price = 250}}
AskSeqs ==
    {<<>>} \cup {<<l>> : l \in Levels}
           \cup {<<a, b>> : a \in {l \in Levels : l.price = 250}, b \in {l \in Levels : l.price = 500}}

VARIABLES
    \* the mirrorConfig handed to makeMirrorStrategy and how construction ended
    \* ("none": not run yet, "ok", "err")
    config, made,
    \* configuration and constraints (fixed at construction)
    offsetTrades, perLevelSpread, volumeDivideBy, primaryConstraints, backingConstraints,
    \* strategy state of the update path
    maxBackingBase, maxBackingQuote,
    \* position of the trader's update cycle and what the last calls saw and returned
    \* (prevBackingBase/Quote: the stored balances before a PreUpdate that failed)
    phase, preUpdateErr, prevBackingBase, prevBackingQuote,
    ob, buyingAOffers, sellingAOffers, modifyRet, createRet,
    ops, updateErr, liabilities,
    \* the calls the last update made: to the primary venue's modify and create
    \* functions, and to the balance coordinators
    sdexCalls, balanceChecks,
    \* a balance coordinator of one update cycle (<<>>: none made yet) and the
    \* checkBalance calls made on it
    coordinator, checkLog,
    \* what the update before the current one was given and returned (<<>>: not kept)
    lastUpdate,
    \* the surplus ledger and its mutex (0: unlocked, else the handler holding it)
    baseSurplus, mutex,
    \* the running HandleFill calls: position, argument, locals, return value
    pc, trade, pre, uncommitted, newVolume, addOrderRet, ret,
    \* orders handed to the backing venue, number of fills so far, and the
    \* ledger and orders of the same calls run one after the other
    orders, nfills, seqSurplus, seqOrders,
    \* for each running call the number of orders handed over before it took
    \* the mutex, and per side the hedge volume of the submissions that failed
    ordersBefore, failedVolume

updateVars == <<maxBackingBase, maxBackingQuote, phase, preUpdateErr, prevBackingBase,
                prevBackingQuote, ob, buyingAOffers, sellingAOffers, modifyRet, createRet,
                ops, updateErr, liabilities, sdexCalls, balanceChecks>>
configVars == <<config, made, offsetTrades, perLevelSpread, volumeDivideBy, primaryConstraints, backingConstraints>>
fillVars == <<baseSurplus, mutex, pc, trade, pre, uncommitted, newVolume, addOrderRet, ret,
              orders, nfills, seqSurplus, seqOrders, ordersBefore, failedVolume>>
coordVars == <<coordinator, checkLog, lastUpdate>>
vars == <<configVars, updateVars, fillVars, coordVars>>

\* priceMultiplier in percent: (1 - perLevelSpread) for bids, (1 + perLevelSpread) for asks
priceMultiplier(side) == IF side = "bid" THEN 100 - perLevelSpread ELSE 100 + perLevelSpread

\* the resting offer the primary venue holds for a level mirrored under this
\* configuration: a buy offer stores the inverted price and the quote amount
OfferFor(side, l) ==
    LET price == NumberByCappingPrecision(Scale(l.price, priceMultiplier(side), 100),
                                          primaryConstraints.PricePrecision)
        vol   == NumberByCappingPrecision(Scale(l.volume, 1, volumeDivideBy),
                                          primaryConstraints.VolumePrecision)
    IN  IF side = "bid"
        THEN [price |-> InvertNumber(price), amount |-> Multiply(vol, price)]
        ELSE [price |-> price, amount |-> vol]

\* the resting offers of a side: mirrors of earlier levels of volume OfferVolume
OfferSeqs(side) ==
    LET S == IF side = "bid" THEN BidSeqs ELSE AskSeqs
    IN  {[i \in 1..Len(s) |-> OfferFor(side, s[i])] :
            s \in {t \in S : \A i \in 1..Len(t) : t[i].volume \in OfferVolumes}}

\* ------------------------------------------------------------------------
\* makeMirrorStrategy
\* ------------------------------------------------------------------------
\* optional config values: <<>> is an unset (nil) pointer
PrecisionOverrides == {<<>>, <<0 - 1>>, <<1>>}
VolumeOverrides == {<<>>, <<0 - 50>>, <<0>>, <<100>>}
DeprecatedVolumes == {<<>>, <<0>>, <<100>>}

Configs ==
    [OffsetTrades : BOOLEAN, PerLevelSpread : Spreads, VolumeDivideBy : Divisors,
     PricePrecisionOverride : PrecisionOverrides, VolumePrecisionOverride : PrecisionOverrides,
     MinBaseVolumeDeprecated : DeprecatedVolumes, MinBaseVolumeOverride : VolumeOverrides,
     MinQuoteVolumeOverride : VolumeOverrides]

\* the constraints the primary venue and the backing exchange report
DefaultPrimaryConstraints == [PricePrecision |-> 2, VolumePrecision |-> 1]
DefaultBackingConstraints == [PricePrecision |-> 2, VolumePrecision |-> 1, MinBaseVolume |-> 100]

convertDeprecatedMirrorConfigValues(c) ==
    IF c.MinBaseVolumeOverride = <<>>
    THEN [c EXCEPT !.MinBaseVolumeOverride = c.MinBaseVolumeDeprecated]
    ELSE c

\* the checks made on the overrides when OffsetTrades is set
InvalidOverrides(c) ==
    \/ (c.MinBaseVolumeOverride # <<>> /\ c.MinBaseVolumeOverride[1] <= 0)
    \/ (c.MinQuoteVolumeOverride # <<>> /\ c.MinQuoteVolumeOverride[1] <= 0)
    \/ (c.VolumePrecisionOverride # <<>> /\ c.VolumePrecisionOverride[1] < 0)
    \/ (c.PricePrecisionOverride # <<>> /\ c.PricePrecisionOverride[1] < 0)

\* construction fails: the exchange cannot be made, or a checked override is invalid
makeMirrorStrategyFails(c, exchangeErr) ==
    IF c.OffsetTrades
    THEN exchangeErr \/ InvalidOverrides(c)
    ELSE exchangeErr

\* exchange.OverrideOrderConstraints, precisions first, then the minimum
\* base volume converted at the overridden volume precision
OverrideOrderConstraints(c) ==
    LET pp == IF c.PricePrecisionOverride = <<>> THEN DefaultBackingConstraints.PricePrecision
              ELSE c.PricePrecisionOverride[1]
        vp == IF c.VolumePrecisionOverride = <<>> THEN DefaultBackingConstraints.VolumePrecision
              ELSE c.VolumePrecisionOverride[1]
    IN  [PricePrecision |-> pp, VolumePrecision |-> vp,
         MinBaseVolume |-> IF c.MinBaseVolumeOverride = <<>>
                           THEN DefaultBackingConstraints.MinBaseVolume
                           ELSE NumberByCappingPrecision(c.MinBaseVolumeOverride[1], vp)]

makeMirrorStrategy ==
    /\ made = "none"
    /\ \E exchangeErr \in BOOLEAN :
          LET c == convertDeprecatedMirrorConfigValues(config)
          IN  IF makeMirrorStrategyFails(c, exchangeErr)
              THEN /\ made' = "err"
                   /\ UNCHANGED <<offsetTrades, perLevelSpread, volumeDivideBy, backingConstraints>>
              ELSE /\ made' = "ok"
                   /\ offsetTrades' = c.OffsetTrades
                   /\ perLevelSpread' = c.PerLevelSpread
                   /\ volumeDivideBy' = c.VolumeDivideBy
                   /\ backingConstraints' = OverrideOrderConstraints(c)
    /\ UNCHANGED <<config, primaryConstraints, updateVars, fillVars, coordVars>>

\* ------------------------------------------------------------------------
\* PreUpdate / recordBalances
\* ------------------------------------------------------------------------
\* balances are optional values: <<>> is a missing (nil) balance
recordBalances(fetchErr, baseBalance, quoteBalance) ==
    IF fetchErr
    THEN [err |-> TRUE, base |-> maxBackingBase, quote |-> maxBackingQuote]
    ELSE IF baseBalance = <<>>
    THEN [err |-> TRUE, base |-> maxBackingBase, quote |-> maxBackingQuote]
    ELSE IF quoteBalance = <<>>
    THEN [err |-> TRUE, base |-> baseBalance, quote |-> maxBackingQuote]
    ELSE [err |-> FALSE, base |-> baseBalance, quote |-> quoteBalance]

\* one PreUpdate, the balances the backing exchange reports drawn from the given sets
PreUpdateOn(baseBalances, quoteBalances) ==
    /\ phase = "idle"
    /\ \E fetchErr \in BOOLEAN,
          baseBalance \in {<<>>} \cup {<<b>> : b \in baseBalances},
          quoteBalance \in {<<>>} \cup {<<q>> : q \in quoteBalances} :
          LET r == IF offsetTrades
                   THEN recordBalances(fetchErr, baseBalance, quoteBalance)
                   ELSE [err |-> FALSE, base |-> maxBackingBase, quote |-> maxBackingQuote]
          IN  /\ maxBackingBase' = r.base
              /\ maxBackingQuote' = r.quote
              /\ preUpdateErr' = r.err
              /\ phase' = IF r.err THEN "idle" ELSE "preUpdated"
    /\ prevBackingBase' = IF preUpdateErr' THEN maxBackingBase ELSE <<>>
    /\ prevBackingQuote' = IF preUpdateErr' THEN maxBackingQuote ELSE <<>>
    /\ UNCHANGED <<ob, buyingAOffers, sellingAOffers, modifyRet, createRet, ops, updateErr,
                   liabilities, sdexCalls, balanceChecks>>
    /\ UNCHANGED <<configVars, fillVars, coordVars>>

PreUpdate == PreUpdateOn(BaseBalances, QuoteBalances)

\* ------------------------------------------------------------------------
\* balanceCoordinator
\* ------------------------------------------------------------------------
\* the units the coordinator of a side had placed at the end of the update before
UnitsLeftBy(last, isBackingBuy) ==
    IF last = <<>> THEN 0
    ELSE IF SelectSeq(last[1].checks, LAMBDA c : c.isBackingBuy = isBackingBuy) = <<>> THEN 0
    ELSE SelectSeq(last[1].checks, LAMBDA c : c.isBackingBuy = isBackingBuy)[
             Len(SelectSeq(last[1].checks, LAMBDA c : c.isBackingBuy = isBackingBuy))].after

\* variant: the coordinator carries on from the units of the update before
NewCoordinator_Carried(balance, isBackingBuy) ==
    [placedUnits |-> UnitsLeftBy(lastUpdate, isBackingBuy), backingBalance |-> balance,
     isBackingBuy |-> isBackingBuy]

\* the coordinator UpdateWithOps makes for a side
NewCoordinator(balance, isBackingBuy) ==
    [placedUnits |-> 0, backingBalance |-> balance, isBackingBuy |-> isBackingBuy]

\* variant: a level that would use the balance up exactly is rejected
checkBalance_Inclusive(b, vol, price) ==
    LET additionalUnits == IF b.isBackingBuy THEN Multiply(vol, price) ELSE vol
        newPlacedUnits  == b.placedUnits + additionalUnits
    IN  IF newPlacedUnits >= b.backingBalance[1]
        THEN [ok |-> FALSE, bc |-> b]
        ELSE [ok |-> TRUE, bc |-> [b EXCEPT !.placedUnits = newPlacedUnits]]

\* returns the verdict and the coordinator after the call
checkBalance(b, vol, price) ==
    LET additionalUnits == IF b.isBackingBuy THEN Multiply(vol, price) ELSE vol
        newPlacedUnits  == b.placedUnits + additionalUnits
    IN  IF newPlacedUnits > b.backingBalance[1]
        THEN [ok |-> FALSE, bc |-> b]
        ELSE [ok |-> TRUE, bc |-> [b EXCEPT !.placedUnits = newPlacedUnits]]

\* ------------------------------------------------------------------------
\* doModifyOffer
\* ------------------------------------------------------------------------
DeleteOffer(side, i) == [kind |-> "delete", side |-> side, i |-> i, price |-> 0, volume |-> 0]

\* s.ieif.AddLiabilities(selling, buying, sellAmt, buyAmt, native): for a bid
\* the selling amount is vol * price, for an ask it is vol
AddLiabilities(side, i, via, vol, price) ==
    <<[side |-> side, i |-> i, via |-> via,
       sellAmt |-> IF side = "bid" THEN Multiply(vol, price) ELSE vol,
       buyAmt  |-> IF side = "bid" THEN vol ELSE Multiply(vol, price)]>>

\* variant: the branch that keeps the existing offer adds no liabilities
KeepOfferLiabilities_None(side, i, oldVol, oldPrice) == <<>>

\* the liability calls of the branch that keeps the existing offer
KeepOfferLiabilities(side, i, oldVol, oldPrice) == AddLiabilities(side, i, "keep", oldVol, oldPrice)

\* the old offer as doModifyOffer compares it: price and volume in the
\* orientation of the backing book
OldOrderParams(side, oldOffer) ==
    LET p0 == MustNumberFromString(oldOffer.price, primaryConstraints.PricePrecision)
        v0 == MustNumberFromString(oldOffer.amount, primaryConstraints.VolumePrecision)
    IN  IF side = "bid"
        THEN [price |-> InvertNumber(p0), volume |-> Multiply(v0, p0)]
        ELSE [price |-> p0, volume |-> v0]

sameOrderParams(side, oldOffer, newOrder) ==
    LET price == Scale(newOrder.price, priceMultiplier(side), 100)
        vol   == Scale(newOrder.volume, 1, volumeDivideBy)
        old   == OldOrderParams(side, oldOffer)
    IN  /\ EqualsPrecisionNormalized(old.price, price)
        /\ EqualsPrecisionNormalized(old.volume, vol)

\* variant: a target below the backing minimum is modified like any other
ShrinksBelowMin_Never(offerAmount) == FALSE

\* the level dropped below the minimum base volume of the backing exchange
ShrinksBelowMin(offerAmount) ==
    offsetTrades /\ offerAmount < backingConstraints.MinBaseVolume

\* variant: a nil op from the modify function leaves the old offer in place
NilModifyOp_Kept(side, i) ==
    [modifyOp |-> <<>>, deleteOp |-> <<>>, err |-> FALSE, liab |-> <<>>, called |-> TRUE]

\* since mo is nil the offer is deleted
NilModifyOp(side, i) ==
    [modifyOp |-> <<>>, deleteOp |-> <<DeleteOffer(side, i)>>, err |-> FALSE, liab |-> <<>>,
     called |-> TRUE]

\* returns modifyOp and deleteOp as optional values, the error flag, the
\* liability calls made and whether the modify function was called
doModifyOffer(side, oldOffer, newOrder, i, mret) ==
    LET price == Scale(newOrder.price, priceMultiplier(side), 100)
        vol   == Scale(newOrder.volume, 1, volumeDivideBy)
        old   == OldOrderParams(side, oldOffer)
        offerPrice  == NumberByCappingPrecision(price, primaryConstraints.PricePrecision)
        offerAmount == NumberByCappingPrecision(vol, primaryConstraints.VolumePrecision)
    IN  IF sameOrderParams(side, oldOffer, newOrder)
        THEN [modifyOp |-> <<>>, deleteOp |-> <<>>, err |-> FALSE,
              liab |-> KeepOfferLiabilities(side, i, old.volume, old.price), called |-> FALSE]
        ELSE IF ShrinksBelowMin(offerAmount)
        THEN [modifyOp |-> <<>>, deleteOp |-> <<DeleteOffer(side, i)>>, err |-> FALSE,
              liab |-> <<>>, called |-> FALSE]
        ELSE IF mret = "err"
        THEN [modifyOp |-> <<>>, deleteOp |-> <<>>, err |-> TRUE, liab |-> <<>>, called |-> TRUE]
        ELSE IF mret = "op"
        THEN [modifyOp |-> <<[kind |-> "modify", side |-> side, i |-> i,
                              price |-> offerPrice, volume |-> offerAmount]>>,
              deleteOp |-> <<>>, err |-> FALSE,
              liab |-> AddLiabilities(side, i, "modify", offerAmount, offerPrice),
              called |-> TRUE]
        ELSE NilModifyOp(side, i)

\* ------------------------------------------------------------------------
\* updateLevels
\* ------------------------------------------------------------------------
\* a call of the primary venue's modify or create function
SdexCall(fn, side, i, price, vol) ==
    [fn |-> fn, side |-> side, i |-> i, price |-> price, volume |-> vol]

\* a call of checkBalance: the coordinator before it, the arguments, the
\* verdict and the coordinator after it
BalanceCheck(path, side, i, b, vol, price, cb) ==
    [path |-> path, side |-> side, i |-> i, vol |-> vol, price |-> price,
     isBackingBuy |-> b.isBackingBuy, backingBalance |-> b.backingBalance[1],
     before |-> b.placedUnits, ok |-> cb.ok, after |-> cb.bc.placedUnits]

\* variant: an offer whose modify is rejected by the coordinator is deleted
RejectedModify_Delete(acc, r, side, i) ==
    [acc EXCEPT !.liab = acc.liab \o r.liab,
                !.deleteOps = Append(acc.deleteOps, DeleteOffer(side, i))]

\* the coordinator rejected the modify: continue with the next level
RejectedModify(acc, r, side, i) == [acc EXCEPT !.liab = acc.liab \o r.liab]

\* the coordinators of an update cycle, one call of checkBalance at a time
MaxChecks == 3
CheckVolumes == {50, 125, 250}

\* UpdateWithOps makes a coordinator for the bid side (sell on the backing
\* exchange, base balance) or the ask side (buy on it, quote balance)
MakeCoordinator ==
    /\ \E isBackingBuy \in BOOLEAN :
          \E b \in (IF isBackingBuy THEN QuoteBalances ELSE BaseBalances) :
              coordinator' = <<NewCoordinator(<<b>>, isBackingBuy)>>
    /\ checkLog' = <<>>
    /\ UNCHANGED lastUpdate
    /\ UNCHANGED <<configVars, updateVars, fillVars>>

CheckBalanceWith(b, vol, price, cb) ==
    /\ coordinator' = <<cb.bc>>
    /\ checkLog' = Append(checkLog,
                          BalanceCheck("cycle", IF b.isBackingBuy THEN "ask" ELSE "bid",
                                       Len(checkLog) + 1, b, vol, price, cb))

CheckBalance ==
    /\ coordinator # <<>>
    /\ Len(checkLog) < MaxChecks
    /\ \E vol \in CheckVolumes, price \in Prices :
          CheckBalanceWith(coordinator[1], vol, price, checkBalance(coordinator[1], vol, price))
    /\ UNCHANGED lastUpdate
    /\ UNCHANGED <<configVars, updateVars, fillVars>>

\* the tail of one iteration of the modify loop, given what doModifyOffer
\* returned (r) and what checkBalance answers (cb)
ModifyLevelApply(acc, side, i, r, cb) ==
    IF r.err
    THEN [acc EXCEPT !.liab = acc.liab \o r.liab, !.err = TRUE]
    ELSE IF r.modifyOp # <<>>
    THEN IF offsetTrades /\ ~cb.ok
         THEN RejectedModify(acc, r, side, i)
         ELSE [acc EXCEPT !.liab = acc.liab \o r.liab,
                          !.ops = acc.ops \o r.modifyOp,
                          !.bc = IF offsetTrades THEN cb.bc ELSE acc.bc]
    ELSE [acc EXCEPT !.liab = acc.liab \o r.liab,
                     !.deleteOps = acc.deleteOps \o r.deleteOp]

\* the calls one iteration of the modify loop makes
ModifyLevelCalls(acc, side, level, i, r, cb) ==
    [acc EXCEPT
        !.calls = IF r.called
                  THEN Append(acc.calls,
                              SdexCall("modify", side, i,
                                  NumberByCappingPrecision(
                                      Scale(level.price, priceMultiplier(side), 100),
                                      primaryConstraints.PricePrecision),
                                  NumberByCappingPrecision(
                                      Scale(level.volume, 1, volumeDivideBy),
                                      primaryConstraints.VolumePrecision)))
                  ELSE acc.calls,
        !.checks = IF r.modifyOp # <<>> /\ offsetTrades
                   THEN Append(acc.checks,
                               BalanceCheck("modify", side, i, acc.bc, level.volume, level.price, cb))
                   ELSE acc.checks]

ModifyLevelWith(acc, side, level, i, r, cb) ==
    ModifyLevelApply(ModifyLevelCalls(acc, side, level, i, r, cb), side, i, r, cb)

\* one iteration of the modify loop (the same body in both branches)
ModifyLevel(acc, side, oldOffers, newOrders, i, mret) ==
    ModifyLevelWith(acc, side, newOrders[i], i,
                    doModifyOffer(side, oldOffers[i], newOrders[i], i, mret),
                    checkBalance(acc.bc, newOrders[i].volume, newOrders[i].price))

\* variant: levels below the backing minimum are created like any other
CreateLevelApply_NoMinimum(acc, side, i, price, vol, cb, cret) ==
    IF offsetTrades /\ ~cb.ok
    THEN acc
    ELSE IF cret = "err"
    THEN [acc EXCEPT !.bc = IF offsetTrades THEN cb.bc ELSE acc.bc, !.err = TRUE]
    ELSE IF cret = "op"
    THEN [acc EXCEPT !.bc = IF offsetTrades THEN cb.bc ELSE acc.bc,
                     !.ops = Append(acc.ops, [kind |-> "create", side |-> side, i |-> i,
                                              price |-> price, volume |-> vol]),
                     !.liab = acc.liab \o AddLiabilities(side, i, "create", vol, price)]
    ELSE [acc EXCEPT !.bc = IF offsetTrades THEN cb.bc ELSE acc.bc]

\* the tail of one iteration of the create loop, given price, vol and what
\* checkBalance answers (cb)
CreateLevelApply(acc, side, i, price, vol, cb, cret) ==
    IF vol < backingConstraints.MinBaseVolume
    THEN acc
    ELSE IF offsetTrades /\ ~cb.ok
    THEN acc
    ELSE IF cret = "err"
    THEN [acc EXCEPT !.bc = IF offsetTrades THEN cb.bc ELSE acc.bc, !.err = TRUE]
    ELSE IF cret = "op"
    THEN [acc EXCEPT !.bc = IF offsetTrades THEN cb.bc ELSE acc.bc,
                     !.ops = Append(acc.ops, [kind |-> "create", side |-> side, i |-> i,
                                              price |-> price, volume |-> vol]),
                     !.liab = acc.liab \o AddLiabilities(side, i, "create", vol, price)]
    ELSE [acc EXCEPT !.bc = IF offsetTrades THEN cb.bc ELSE acc.bc]

\* the calls one iteration of the create loop makes
CreateLevelCalls(acc, side, i, price, vol, cb) ==
    IF vol < backingConstraints.MinBaseVolume
    THEN acc
    ELSE [acc EXCEPT
            !.checks = IF offsetTrades
                       THEN Append(acc.checks,
                                   BalanceCheck("create", side, i, acc.bc, vol, price, cb))
                       ELSE acc.checks,
            !.calls = IF offsetTrades /\ ~cb.ok
                      THEN acc.calls
                      ELSE Append(acc.calls, SdexCall("create", side, i, price, vol))]

CreateLevelWith(acc, side, i, price, vol, cb, cret) ==
    CreateLevelApply(CreateLevelCalls(acc, side, i, price, vol, cb), side, i, price, vol, cb, cret)

CreateLevelAt(acc, side, i, price, vol, cret) ==
    CreateLevelWith(acc, side, i, price, vol, checkBalance(acc.bc, vol, price), cret)

\* one iteration of the loop that creates offers for the remaining levels
CreateLevel(acc, side, newOrders, i, cret) ==
    CreateLevelAt(acc, side, i,
                  Scale(newOrders[i].price, priceMultiplier(side), 100),
                  Scale(newOrders[i].volume, 1, volumeDivideBy),
                  cret)

RECURSIVE ModifyLoop(_, _, _, _, _, _, _)
ModifyLoop(acc, side, oldOffers, newOrders, i, last, mret) ==
    IF i > last \/ acc.err
    THEN acc
    ELSE ModifyLoop(ModifyLevel(acc, side, oldOffers, newOrders, i, mret),
                    side, oldOffers, newOrders, i + 1, last, mret)

RECURSIVE CreateLoop(_, _, _, _, _, _)
CreateLoop(acc, side, newOrders, i, last, cret) ==
    IF i > last \/ acc.err
    THEN acc
    ELSE CreateLoop(CreateLevel(acc, side, newOrders, i, cret), side, newOrders, i + 1, last, cret)

RECURSIVE DeleteLoop(_, _, _, _)
DeleteLoop(acc, side, i, last) ==
    IF i > last \/ acc.err
    THEN acc
    ELSE DeleteLoop([acc EXCEPT !.deleteOps = Append(acc.deleteOps, DeleteOffer(side, i))],
                    side, i + 1, last)

\* variant: the delete ops are appended after the level ops
PrependDeletes_AppendLast(deleteOps, levelOps) == levelOps \o deleteOps

\* allOps := append(deleteOps, ops...)
PrependDeletes(deleteOps, levelOps) == deleteOps \o levelOps

updateLevelsReturn(acc) ==
    [allOps |-> IF acc.err THEN <<>> ELSE PrependDeletes(acc.deleteOps, acc.ops),
     err |-> acc.err, liab |-> acc.liab, bc |-> acc.bc,
     calls |-> acc.calls, checks |-> acc.checks]

\* variant: the loop that deletes the remaining offers starts one offer early
updateLevelsFrom_DeleteLastModified(acc0, oldOffers, newOrders, side, mret, cret) ==
    updateLevelsReturn(
        IF Len(newOrders) >= Len(oldOffers)
        THEN CreateLoop(ModifyLoop(acc0, side, oldOffers, newOrders, 1, Len(oldOffers), mret),
                        side, newOrders, Len(oldOffers) + 1, Len(newOrders), cret)
        ELSE DeleteLoop(ModifyLoop(acc0, side, oldOffers, newOrders, 1, Len(newOrders), mret),
                        side, IF Len(newOrders) > 0 THEN Len(newOrders) ELSE 1, Len(oldOffers)))

\* variant: the loop that deletes the remaining offers starts one offer late
updateLevelsFrom_OffByOne(acc0, oldOffers, newOrders, side, mret, cret) ==
    updateLevelsReturn(
        IF Len(newOrders) >= Len(oldOffers)
        THEN CreateLoop(ModifyLoop(acc0, side, oldOffers, newOrders, 1, Len(oldOffers), mret),
                        side, newOrders, Len(oldOffers) + 1, Len(newOrders), cret)
        ELSE DeleteLoop(ModifyLoop(acc0, side, oldOffers, newOrders, 1, Len(newOrders), mret),
                        side, Len(newOrders) + 2, Len(oldOffers)))

updateLevelsFrom(acc0, oldOffers, newOrders, side, mret, cret) ==
    updateLevelsReturn(
        IF Len(newOrders) >= Len(oldOffers)
        THEN CreateLoop(ModifyLoop(acc0, side, oldOffers, newOrders, 1, Len(oldOffers), mret),
                        side, newOrders, Len(oldOffers) + 1, Len(newOrders), cret)
        ELSE DeleteLoop(ModifyLoop(acc0, side, oldOffers, newOrders, 1, Len(newOrders), mret),
                        side, Len(newOrders) + 1, Len(oldOffers)))

\* liab: the liability calls made so far in this update
updateLevels(oldOffers, newOrders, side, bc, liab, mret, cret) ==
    updateLevelsFrom([ops |-> <<>>, deleteOps |-> <<>>, bc |-> bc, liab |-> liab, err |-> FALSE,
                      calls |-> <<>>, checks |-> <<>>],
                     oldOffers, newOrders, side, mret, cret)

\* ------------------------------------------------------------------------
\* UpdateWithOps
\* ------------------------------------------------------------------------
MaxOpsPerSide == 50

\* variant: the sides of the order book are not cut
Truncate_None(levels) == levels

Truncate(levels) == IF Len(levels) > MaxOpsPerSide THEN SubSeq(levels, 1, MaxOpsPerSide) ELSE levels

\* variant: a top bid equal to the first ask offer's price does not count
Crossed_Strict(book, sellOffers) ==
    /\ Len(book.bids) > 0
    /\ Len(sellOffers) > 0
    /\ book.bids[1].price > sellOffers[1].price

\* the condition under which the ask-side ops go first
Crossed(book, sellOffers) ==
    /\ Len(book.bids) > 0
    /\ Len(sellOffers) > 0
    /\ book.bids[1].price >= sellOffers[1].price

\* the batch, given what updateLevels returned for the two sides
UpdateWithOpsReturn(book, sellOffers, buy, sell) ==
    IF buy.err
    THEN [ops |-> <<>>, err |-> TRUE, liab |-> buy.liab,
          calls |-> buy.calls, checks |-> buy.checks]
    ELSE IF sell.err
    THEN [ops |-> <<>>, err |-> TRUE, liab |-> sell.liab,
          calls |-> buy.calls \o sell.calls, checks |-> buy.checks \o sell.checks]
    ELSE [ops |-> IF Crossed(book, sellOffers)
                  THEN sell.allOps \o buy.allOps
                  ELSE buy.allOps \o sell.allOps,
          err |-> FALSE, liab |-> sell.liab,
          calls |-> buy.calls \o sell.calls, checks |-> buy.checks \o sell.checks]

\* the ask side, which runs only when the bid side returned no error
UpdateWithOpsSell(book, sellOffers, buy, mret, cret) ==
    UpdateWithOpsReturn(book, sellOffers, buy,
        IF buy.err
        THEN buy
        ELSE updateLevels(sellOffers, Truncate(book.asks), "ask",
                          NewCoordinator(maxBackingQuote, TRUE),
                          buy.liab, mret, cret))

UpdateWithOpsResult(book, buyOffers, sellOffers, mret, cret) ==
    UpdateWithOpsSell(book, sellOffers,
        updateLevels(buyOffers, Truncate(book.bids), "bid",
                     NewCoordinator(maxBackingBase, FALSE),
                     <<>>, mret, cret),
        mret, cret)

\* one update, the order book and the existing offers drawn from the given sets
UpdateWithOpsOn(bidSeqs, askSeqs, buyOfferSeqs, sellOfferSeqs) ==
    /\ phase = "preUpdated"
    /\ \E bids \in bidSeqs, asks \in askSeqs, bo \in buyOfferSeqs, so \in sellOfferSeqs,
          mret \in SdexRet, cret \in SdexRet, obErr \in BOOLEAN :
          \E r \in {IF obErr
                    THEN [ops |-> <<>>, err |-> TRUE, liab |-> <<>>,
                          calls |-> <<>>, checks |-> <<>>]
                    ELSE UpdateWithOpsResult([bids |-> bids, asks |-> asks], bo, so, mret, cret)} :
              /\ ob' = IF obErr THEN [bids |-> <<>>, asks |-> <<>>]
                       ELSE [bids |-> bids, asks |-> asks]
              /\ buyingAOffers' = bo
              /\ sellingAOffers' = so
              /\ modifyRet' = mret
              /\ createRet' = cret
              /\ ops' = r.ops
              /\ updateErr' = r.err
              /\ liabilities' = r.liab
              /\ sdexCalls' = r.calls
              /\ balanceChecks' = r.checks
    /\ phase' = "updated"
    /\ UNCHANGED <<maxBackingBase, maxBackingQuote, preUpdateErr, prevBackingBase, prevBackingQuote>>
    /\ UNCHANGED <<configVars, fillVars, coordVars>>

UpdateWithOps == UpdateWithOpsOn(BidSeqs, AskSeqs, OfferSeqs("bid"), OfferSeqs("ask"))

\* order books and offer lists around the cut at MaxOpsPerSide levels: level i
\* of a deep book is i ticks away from the price 1.00
BookDepths == {2, MaxOpsPerSide, MaxOpsPerSide + 2}
OfferDepths == {0, MaxOpsPerSide + 1}

DeepLevel(side, i) ==
    [price |-> IF side = "bid" THEN 100 - i ELSE 100 + i, volume |-> 250]

DeepBookSeqs(side) == {[i \in 1..n |-> DeepLevel(side, i)] : n \in BookDepths}

DeepOfferSeqs(side) == {[i \in 1..n |-> OfferFor(side, DeepLevel(side, i))] : n \in OfferDepths}

\* one update against a deep book
UpdateWithOpsDeep ==
    UpdateWithOpsOn(DeepBookSeqs("bid"), DeepBookSeqs("ask"),
                    DeepOfferSeqs("bid"), DeepOfferSeqs("ask"))

\* variant: the end of the cycle clears the surplus ledger
PostUpdate_ResetLedger ==
    /\ phase = "updated"
    /\ phase' = "idle"
    /\ ob' = [bids |-> <<>>, asks |-> <<>>]
    /\ buyingAOffers' = <<>>
    /\ sellingAOffers' = <<>>
    /\ modifyRet' = "op"
    /\ createRet' = "op"
    /\ ops' = <<>>
    /\ updateErr' = FALSE
    /\ liabilities' = <<>>
    /\ sdexCalls' = <<>>
    /\ balanceChecks' = <<>>
    /\ baseSurplus' = [a \in {"buy", "sell"} |-> [total |-> 0, committed |-> 0]]
    /\ UNCHANGED <<maxBackingBase, maxBackingQuote, preUpdateErr, prevBackingBase, prevBackingQuote>>
    /\ UNCHANGED <<mutex, pc, trade, pre, uncommitted, newVolume, addOrderRet, ret, orders, nfills,
                   seqSurplus, seqOrders, ordersBefore, failedVolume>>
    /\ UNCHANGED <<configVars, coordVars>>

\* PostUpdate is a no-op of the strategy; the trader has consumed the batch
\* (keep: what the update was given and returned stays on record)
PostUpdateOn(keep) ==
    /\ phase = "updated"
    /\ phase' = "idle"
    /\ ob' = [bids |-> <<>>, asks |-> <<>>]
    /\ buyingAOffers' = <<>>
    /\ sellingAOffers' = <<>>
    /\ modifyRet' = "op"
    /\ createRet' = "op"
    /\ ops' = <<>>
    /\ updateErr' = FALSE
    /\ liabilities' = <<>>
    /\ sdexCalls' = <<>>
    /\ balanceChecks' = <<>>
    /\ lastUpdate' = IF keep
                     THEN <<[ob |-> ob, buyingAOffers |-> buyingAOffers,
                             sellingAOffers |-> sellingAOffers, modifyRet |-> modifyRet,
                             createRet |-> createRet, maxBackingBase |-> maxBackingBase,
                             maxBackingQuote |-> maxBackingQuote, ops |-> ops,
                             updateErr |-> updateErr, checks |-> balanceChecks]>>
                     ELSE lastUpdate
    /\ UNCHANGED <<maxBackingBase, maxBackingQuote, preUpdateErr, prevBackingBase, prevBackingQuote>>
    /\ UNCHANGED <<configVars, fillVars, coordinator, checkLog>>

PostUpdate == PostUpdateOn(FALSE)

\* ------------------------------------------------------------------------
\* HandleFill and the surplus ledger
\* ------------------------------------------------------------------------
MaxFills == 3
Handlers == {1, 2}
OrderActions == {"buy", "sell"}
FillVolumes == {20, 30, 70, 125}
FillPrices == {250}
AddOrderRets == {"txid", "nil", "err"}

\* variant: the hedge is keyed by the side of the trade itself
Reverse_Same(action) == action

Reverse(action) == IF action = "buy" THEN "sell" ELSE "buy"

makeAssetSurplus == [total |-> 0, committed |-> 0]

NoTrade == [action |-> "buy", volume |-> 0, price |-> 0]

\* variant: no lower threshold, every fill is hedged at once
baseVolumeToOffset_NoSkip(surplus) ==
    LET uncommittedBase == surplus.total - surplus.committed
    IN  [ok |-> TRUE,
         newVolume |-> NumberByCappingPrecision(
                           IF uncommittedBase > backingConstraints.MinBaseVolume
                           THEN uncommittedBase
                           ELSE backingConstraints.MinBaseVolume,
                           backingConstraints.VolumePrecision)]

\* variant: the lower threshold is inclusive, exactly half the minimum is skipped
baseVolumeToOffset_SkipAtHalf(surplus) ==
    LET uncommittedBase == surplus.total - surplus.committed
    IN  IF 2 * uncommittedBase <= backingConstraints.MinBaseVolume
        THEN [ok |-> FALSE, newVolume |-> 0]
        ELSE [ok |-> TRUE,
              newVolume |-> NumberByCappingPrecision(
                                IF uncommittedBase > backingConstraints.MinBaseVolume
                                THEN uncommittedBase
                                ELSE backingConstraints.MinBaseVolume,
                                backingConstraints.VolumePrecision)]

\* variant: the lower threshold is the whole minimum, there is no over-hedge
baseVolumeToOffset_SkipBelowMin(surplus) ==
    LET uncommittedBase == surplus.total - surplus.committed
    IN  IF uncommittedBase < backingConstraints.MinBaseVolume
        THEN [ok |-> FALSE, newVolume |-> 0]
        ELSE [ok |-> TRUE,
              newVolume |-> NumberByCappingPrecision(
                                IF uncommittedBase > backingConstraints.MinBaseVolume
                                THEN uncommittedBase
                                ELSE backingConstraints.MinBaseVolume,
                                backingConstraints.VolumePrecision)]

\* newVolume and ok for a ledger record; MinBaseVolume.Scale(0.5) is compared
\* without loss by doubling the left side
baseVolumeToOffset(surplus) ==
    LET uncommittedBase == surplus.total - surplus.committed
    IN  IF 2 * uncommittedBase < backingConstraints.MinBaseVolume
        THEN [ok |-> FALSE, newVolume |-> 0]
        ELSE [ok |-> TRUE,
              newVolume |-> NumberByCappingPrecision(
                                IF uncommittedBase > backingConstraints.MinBaseVolume
                                THEN uncommittedBase
                                ELSE backingConstraints.MinBaseVolume,
                                backingConstraints.VolumePrecision)]

\* variant: no mutual exclusion
CanLock_Always == TRUE

\* s.mutex.Lock() can return
CanLock == mutex = 0

\* variant: the nil transaction id is not checked
AddOrderFailed_ErrOnly(r) == r = "err"

\* the checks after AddOrder: an error or a nil transaction id
AddOrderFailed(r) == r \in {"nil", "err"}

NewOrder(tr, vol) ==
    [action |-> Reverse(tr.action), volume |-> vol,
     price |-> NumberByCappingPrecision(tr.price, backingConstraints.PricePrecision)]

\* variant: a successful hedge clears everything committed on the side
settle_ClearCommitted(surplus, vol) == [total |-> surplus.total - vol, committed |-> 0]

\* variant: only committed is reduced
settle_CommittedOnly(surplus, vol) == [total |-> surplus.total, committed |-> surplus.committed - vol]

\* update the baseSurplus on success
settle(surplus, vol) == [total |-> surplus.total - vol, committed |-> surplus.committed - vol]

\* HandleFill run without interruption on a ledger: the ledger and the
\* orders after the call
HandleFillSeq(surplus, submitted, tr, r) ==
    LET a   == Reverse(tr.action)
        s1  == [surplus EXCEPT ![a].total = @ + tr.volume]
        off == baseVolumeToOffset(s1[a])
        s2  == [s1 EXCEPT ![a].committed = @ + off.newVolume]
        s3  == [s2 EXCEPT ![a] = settle(@, off.newVolume)]
    IN  IF ~off.ok
        THEN [surplus |-> s1, orders |-> submitted]
        ELSE [surplus |-> IF AddOrderFailed(r) THEN s2 ELSE s3,
              orders |-> Append(submitted, NewOrder(tr, off.newVolume))]

\* the harness dispatches a fill to the handler (GetFillHandlers)
\* the fill tracker calls the handler with a trade drawn from the given sets
CallOn(t, actions, volumes) ==
    /\ offsetTrades
    /\ pc[t] = "idle"
    /\ nfills < MaxFills
    /\ \E a \in actions, v \in volumes, p \in FillPrices :
          trade' = [trade EXCEPT ![t] = [action |-> a, volume |-> v, price |-> p]]
    /\ nfills' = nfills + 1
    /\ pc' = [pc EXCEPT ![t] = "lock"]
    /\ ret' = [ret EXCEPT ![t] = "none"]
    /\ UNCHANGED <<baseSurplus, mutex, pre, uncommitted, newVolume, addOrderRet, orders,
                   seqSurplus, seqOrders>>
    /\ UNCHANGED <<ordersBefore, failedVolume>>
    /\ UNCHANGED <<configVars, updateVars, coordVars>>

Call(t) == CallOn(t, OrderActions, FillVolumes)

Lock(t) ==
    /\ pc[t] = "lock"
    /\ CanLock
    /\ mutex' = t
    /\ pre' = [pre EXCEPT ![t] = baseSurplus[Reverse(trade[t].action)]]
    /\ pc' = [pc EXCEPT ![t] = "addFill"]
    /\ UNCHANGED <<baseSurplus, trade, uncommitted, newVolume, addOrderRet, ret, orders, nfills,
                   seqSurplus, seqOrders>>
    /\ ordersBefore' = [ordersBefore EXCEPT ![t] = Len(orders)]
    /\ UNCHANGED failedVolume
    /\ UNCHANGED <<configVars, updateVars, coordVars>>

\* total = total.Add(trade.Volume)
AddFill(t) ==
    /\ pc[t] = "addFill"
    /\ baseSurplus' = [baseSurplus EXCEPT ![Reverse(trade[t].action)].total = @ + trade[t].volume]
    /\ pc' = [pc EXCEPT ![t] = "offset"]
    /\ UNCHANGED <<mutex, trade, pre, uncommitted, newVolume, addOrderRet, ret, orders, nfills,
                   seqSurplus, seqOrders>>
    /\ UNCHANGED <<ordersBefore, failedVolume>>
    /\ UNCHANGED <<configVars, updateVars, coordVars>>

\* variant: the hedge volume is committed before the skip is decided
Offset_CommitOnSkip(t) ==
    /\ pc[t] = "offset"
    /\ LET a   == Reverse(trade[t].action)
           off == baseVolumeToOffset(baseSurplus[a])
       IN  /\ uncommitted' = [uncommitted EXCEPT ![t] = baseSurplus[a].total - baseSurplus[a].committed]
           /\ newVolume' = [newVolume EXCEPT ![t] = off.newVolume]
           /\ IF off.ok
              THEN /\ baseSurplus' = [baseSurplus EXCEPT ![a].committed = @ + off.newVolume]
                   /\ pc' = [pc EXCEPT ![t] = "submit"]
                   /\ ret' = ret
              ELSE /\ baseSurplus' = [baseSurplus EXCEPT ![a].committed =
                                          @ + backingConstraints.MinBaseVolume]
                   /\ pc' = [pc EXCEPT ![t] = "unlock"]
                   /\ ret' = [ret EXCEPT ![t] = "skip"]
    /\ UNCHANGED <<mutex, trade, pre, addOrderRet, orders, nfills, seqSurplus, seqOrders>>
    /\ UNCHANGED <<ordersBefore, failedVolume>>
    /\ UNCHANGED <<configVars, updateVars, coordVars>>

\* baseVolumeToOffset, then return nil or commit newVolume
Offset(t) ==
    /\ pc[t] = "offset"
    /\ LET a   == Reverse(trade[t].action)
           off == baseVolumeToOffset(baseSurplus[a])
       IN  /\ uncommitted' = [uncommitted EXCEPT ![t] = baseSurplus[a].total - baseSurplus[a].committed]
           /\ newVolume' = [newVolume EXCEPT ![t] = off.newVolume]
           /\ IF off.ok
              THEN /\ baseSurplus' = [baseSurplus EXCEPT ![a].committed = @ + off.newVolume]
                   /\ pc' = [pc EXCEPT ![t] = "submit"]
                   /\ ret' = ret
              ELSE /\ baseSurplus' = baseSurplus
                   /\ pc' = [pc EXCEPT ![t] = "unlock"]
                   /\ ret' = [ret EXCEPT ![t] = "skip"]
    /\ UNCHANGED <<mutex, trade, pre, addOrderRet, orders, nfills, seqSurplus, seqOrders>>
    /\ UNCHANGED <<ordersBefore, failedVolume>>
    /\ UNCHANGED <<configVars, updateVars, coordVars>>

\* s.exchange.AddOrder(&newOrder) returns one of the given results
SubmitOn(t, rets) ==
    /\ pc[t] = "submit"
    /\ \E r \in rets :
          /\ addOrderRet' = [addOrderRet EXCEPT ![t] = r]
          /\ IF AddOrderFailed(r)
             THEN /\ pc' = [pc EXCEPT ![t] = "unlock"]
                  /\ ret' = [ret EXCEPT ![t] = "error"]
                  /\ failedVolume' = [failedVolume EXCEPT ![Reverse(trade[t].action)] =
                                          @ + newVolume[t]]
             ELSE /\ pc' = [pc EXCEPT ![t] = "settle"]
                  /\ ret' = ret
                  /\ failedVolume' = failedVolume
    /\ UNCHANGED ordersBefore
    /\ orders' = Append(orders, NewOrder(trade[t], newVolume[t]))
    /\ UNCHANGED <<baseSurplus, mutex, trade, pre, uncommitted, newVolume, nfills,
                   seqSurplus, seqOrders>>
    /\ UNCHANGED <<configVars, updateVars, coordVars>>

Submit(t) == SubmitOn(t, AddOrderRets)

\* update the baseSurplus on success
Settle(t) ==
    /\ pc[t] = "settle"
    /\ baseSurplus' = [baseSurplus EXCEPT ![Reverse(trade[t].action)] = settle(@, newVolume[t])]
    /\ pc' = [pc EXCEPT ![t] = "unlock"]
    /\ ret' = [ret EXCEPT ![t] = "ok"]
    /\ UNCHANGED <<mutex, trade, pre, uncommitted, newVolume, addOrderRet, orders, nfills,
                   seqSurplus, seqOrders>>
    /\ UNCHANGED <<ordersBefore, failedVolume>>
    /\ UNCHANGED <<configVars, updateVars, coordVars>>

\* variant: the mutex is released by the success and skip returns only
Unlock_NotOnError(t) ==
    /\ pc[t] = "unlock"
    /\ mutex' = IF ret[t] = "error" THEN mutex ELSE 0
    /\ LET r == HandleFillSeq(seqSurplus, seqOrders, trade[t], addOrderRet[t])
       IN  /\ seqSurplus' = r.surplus
           /\ seqOrders' = r.orders
    /\ pc' = [pc EXCEPT ![t] = "idle"]
    /\ trade' = [trade EXCEPT ![t] = NoTrade]
    /\ pre' = [pre EXCEPT ![t] = makeAssetSurplus]
    /\ uncommitted' = [uncommitted EXCEPT ![t] = 0]
    /\ newVolume' = [newVolume EXCEPT ![t] = 0]
    /\ addOrderRet' = [addOrderRet EXCEPT ![t] = "txid"]
    /\ UNCHANGED <<baseSurplus, ret, orders, nfills>>
    /\ ordersBefore' = [ordersBefore EXCEPT ![t] = 0]
    /\ UNCHANGED failedVolume
    /\ UNCHANGED <<configVars, updateVars, coordVars>>

\* the deferred s.mutex.Unlock() as the call returns
Unlock(t) ==
    /\ pc[t] = "unlock"
    /\ mutex' = 0
    /\ LET r == HandleFillSeq(seqSurplus, seqOrders, trade[t], addOrderRet[t])
       IN  /\ seqSurplus' = r.surplus
           /\ seqOrders' = r.orders
    /\ pc' = [pc EXCEPT ![t] = "idle"]
    /\ trade' = [trade EXCEPT ![t] = NoTrade]
    /\ pre' = [pre EXCEPT ![t] = makeAssetSurplus]
    /\ uncommitted' = [uncommitted EXCEPT ![t] = 0]
    /\ newVolume' = [newVolume EXCEPT ![t] = 0]
    /\ addOrderRet' = [addOrderRet EXCEPT ![t] = "txid"]
    /\ UNCHANGED <<baseSurplus, ret, orders, nfills>>
    /\ ordersBefore' = [ordersBefore EXCEPT ![t] = 0]
    /\ UNCHANGED failedVolume
    /\ UNCHANGED <<configVars, updateVars, coordVars>>

HandleFill(t) == Call(t) \/ Lock(t) \/ AddFill(t) \/ Offset(t) \/ Submit(t) \/ Settle(t) \/ Unlock(t)

\* ------------------------------------------------------------------------
\* specifications
\* ------------------------------------------------------------------------
\* a strategy constructed from a configuration without overrides
InitConfig ==
    /\ offsetTrades \in BOOLEAN
    /\ perLevelSpread \in Spreads
    /\ volumeDivideBy \in Divisors
    /\ primaryConstraints = [PricePrecision |-> 2, VolumePrecision |-> 1]
    /\ backingConstraints = [PricePrecision |-> 2, VolumePrecision |-> 1, MinBaseVolume |-> 100]
    /\ config = [OffsetTrades |-> offsetTrades, PerLevelSpread |-> perLevelSpread,
                 VolumeDivideBy |-> volumeDivideBy,
                 PricePrecisionOverride |-> <<>>, VolumePrecisionOverride |-> <<>>,
                 MinBaseVolumeDeprecated |-> <<>>, MinBaseVolumeOverride |-> <<>>,
                 MinQuoteVolumeOverride |-> <<>>]
    /\ made = "ok"

\* before construction: any configuration, the strategy fields not yet set
InitUnmade ==
    /\ config \in Configs
    /\ made = "none"
    /\ offsetTrades = FALSE
    /\ perLevelSpread = 0
    /\ volumeDivideBy = 1
    /\ primaryConstraints = DefaultPrimaryConstraints
    /\ backingConstraints = DefaultBackingConstraints

InitUpdate ==
    /\ maxBackingBase = <<>>
    /\ maxBackingQuote = <<>>
    /\ phase = "idle"
    /\ preUpdateErr = FALSE
    /\ prevBackingBase = <<>>
    /\ prevBackingQuote = <<>>
    /\ ob = [bids |-> <<>>, asks |-> <<>>]
    /\ buyingAOffers = <<>>
    /\ sellingAOffers = <<>>
    /\ modifyRet = "op"
    /\ createRet = "op"
    /\ ops = <<>>
    /\ updateErr = FALSE
    /\ liabilities = <<>>
    /\ sdexCalls = <<>>
    /\ balanceChecks = <<>>

InitFill ==
    /\ baseSurplus = [a \in OrderActions |-> makeAssetSurplus]
    /\ mutex = 0
    /\ pc = [t \in Handlers |-> "idle"]
    /\ trade = [t \in Handlers |-> NoTrade]
    /\ pre = [t \in Handlers |-> makeAssetSurplus]
    /\ uncommitted = [t \in Handlers |-> 0]
    /\ newVolume = [t \in Handlers |-> 0]
    /\ addOrderRet = [t \in Handlers |-> "txid"]
    /\ ret = [t \in Handlers |-> "none"]
    /\ orders = <<>>
    /\ nfills = 0
    /\ seqSurplus = [a \in OrderActions |-> makeAssetSurplus]
    /\ seqOrders = <<>>
    /\ ordersBefore = [t \in Handlers |-> 0]
    /\ failedVolume = [a \in OrderActions |-> 0]

InitCoordinator ==
    /\ coordinator = <<>>
    /\ checkLog = <<>>
    /\ lastUpdate = <<>>

Init == InitConfig /\ InitUpdate /\ InitFill /\ InitCoordinator

NextUpdate == PreUpdate \/ UpdateWithOps \/ PostUpdate

\* the update cycle of the trader, no fills
SpecUpdate == Init /\ [][NextUpdate]_vars

NextFill == \E t \in Handlers : HandleFill(t)

\* fills handled by concurrent handlers of a hedging strategy, no update cycle
InitHedging == Init /\ offsetTrades /\ perLevelSpread = 0 /\ volumeDivideBy = 1

SpecFill == InitHedging /\ [][NextFill]_vars

\* the update cycle against deep order books and long offer lists
NextDeep == PreUpdate \/ UpdateWithOpsDeep \/ PostUpdate

SpecDeep == Init /\ [][NextDeep]_vars

\* the update cycle of the trader interleaved with the fill handlers: one
\* backing bid level, no resting offers, fills of one size on one side
TraderBids == {<<[price |-> 500, volume |-> 250]>>}

PreUpdateTrader == PreUpdateOn({300}, {1500})

UpdateWithOpsTrader == UpdateWithOpsOn(TraderBids, {<<>>}, {<<>>}, {<<>>})

HandleFillTrader(t) ==
    CallOn(t, OrderActions, {30, 70}) \/ Lock(t) \/ AddFill(t) \/ Offset(t) \/ Submit(t) \/ Settle(t)
        \/ Unlock(t)

NextTrader ==
    \/ PreUpdateTrader
    \/ UpdateWithOpsTrader
    \/ PostUpdate
    \/ \E t \in Handlers : HandleFillTrader(t)

SpecTrader == InitHedging /\ [][NextTrader]_vars

\* the update cycle on a primary venue whose price precision is coarser than
\* the backing exchange's, with a spread of 0.1
InitCoarse ==
    /\ offsetTrades \in BOOLEAN
    /\ perLevelSpread = 10
    /\ volumeDivideBy \in Divisors
    /\ primaryConstraints = [PricePrecision |-> 1, VolumePrecision |-> 1]
    /\ backingConstraints = DefaultBackingConstraints
    /\ config = [OffsetTrades |-> offsetTrades, PerLevelSpread |-> perLevelSpread,
                 VolumeDivideBy |-> volumeDivideBy,
                 PricePrecisionOverride |-> <<>>, VolumePrecisionOverride |-> <<>>,
                 MinBaseVolumeDeprecated |-> <<>>, MinBaseVolumeOverride |-> <<>>,
                 MinQuoteVolumeOverride |-> <<>>]
    /\ made = "ok"
    /\ InitUpdate
    /\ InitFill
    /\ InitCoordinator

SpecCoarse == InitCoarse /\ [][NextUpdate]_vars

\* the same, every call that can take a step does so: a handler inside the
\* call keeps running and AddOrder returns (weak fairness), and a handler
\* waiting in s.mutex.Lock() gets the mutex if it is free again and again
\* (strong fairness)
FairFill ==
    \A t \in Handlers :
        /\ WF_vars(AddFill(t) \/ Offset(t) \/ Submit(t) \/ Settle(t) \/ Unlock(t))
        /\ SF_vars(Lock(t))

\* fills of two sizes, one skipped and one hedged when it comes first
HandleFillFair(t) ==
    CallOn(t, OrderActions, {30, 70}) \/ Lock(t) \/ AddFill(t) \/ Offset(t) \/ Submit(t)
        \/ Settle(t) \/ Unlock(t)

NextFillFair == \E t \in Handlers : HandleFillFair(t)

SpecFillFair == InitHedging /\ [][NextFillFair]_vars /\ FairFill

\* fills handled while the backing venue accepts every order
HandleFillAccepted(t) ==
    Call(t) \/ Lock(t) \/ AddFill(t) \/ Offset(t) \/ SubmitOn(t, {"txid"}) \/ Settle(t)
        \/ Unlock(t)

NextAccepted == \E t \in Handlers : HandleFillAccepted(t)

SpecAccepted == InitHedging /\ [][NextAccepted]_vars

\* update cycles of a hedging strategy, one after the other, each on record
\* for the next: one or two backing bids, at most one resting bid offer
CycleBids ==
    {<<[price |-> 500, volume |-> 250]>>,
     <<[price |-> 500, volume |-> 250], [price |-> 250, volume |-> 250]>>}

CycleOffers == {<<>>, <<OfferFor("bid", [price |-> 250, volume |-> 250])>>}

NextCycles ==
    \/ PreUpdateOn({300}, {1500})
    \/ UpdateWithOpsOn(CycleBids, {<<>>}, CycleOffers, {<<>>})
    \/ PostUpdateOn(TRUE)

SpecCycles == InitHedging /\ [][NextCycles]_vars

\* the balance coordinators of update cycles, call by call
NextBalance == MakeCoordinator \/ CheckBalance

SpecBalance == InitHedging /\ [][NextBalance]_vars

\* construction of the strategy from any configuration
InitMake == InitUnmade /\ InitUpdate /\ InitFill /\ InitCoordinator

NextMake == makeMirrorStrategy

SpecMake == InitMake /\ [][NextMake]_vars

\* ------------------------------------------------------------------------
\* properties of the update path
\* ------------------------------------------------------------------------
OffersOf(side) == IF side = "bid" THEN buyingAOffers ELSE sellingAOffers
OrdersOf(side) == IF side = "bid" THEN Truncate(ob.bids) ELSE Truncate(ob.asks)
Min(a, b) == IF a < b THEN a ELSE b

OpsAt(side, i) == {k \in 1..Len(ops) : ops[k].side = side /\ ops[k].i = i}
LiabilitiesAt(side, i) ==
    {k \in 1..Len(liabilities) : liabilities[k].side = side /\ liabilities[k].i = i}

\* C1: in the returned batch, within each side every delete op precedes every
\* modify op and every create op of that side
C1_DeletesFirst ==
    \A j \in 1..Len(ops) : \A k \in 1..Len(ops) :
        (ops[j].side = ops[k].side /\ ops[j].kind = "delete" /\ ops[k].kind # "delete") => j < k

C1_Witness ==
    /\ phase = "updated"
    /\ \E j \in 1..Len(ops) : \E k \in 1..Len(ops) :
          /\ ops[j].side = ops[k].side
          /\ ops[j].kind = "delete"
          /\ ops[k].kind = "modify"
          /\ ops[j].i > ops[k].i

\* units a create or modify op takes from the backing balance of its side:
\* base volume for the bid side, volume x price for the ask side
OpUnits(o) ==
    IF o.kind = "delete" THEN 0
    ELSE IF o.side = "bid" THEN o.volume ELSE Multiply(o.volume, o.price)

RECURSIVE SumUnits(_, _)
SumUnits(side, k) ==
    IF k = 0 THEN 0
    ELSE (IF ops[k].side = side THEN OpUnits(ops[k]) ELSE 0) + SumUnits(side, k - 1)

\* C3: after a successful update with hedging enabled, the create and modify
\* ops of each side sum to at most the backing balance recorded by PreUpdate
C3_WithinBackingBalance ==
    (phase = "updated" /\ ~updateErr /\ offsetTrades) =>
        /\ SumUnits("bid", Len(ops)) <= maxBackingBase[1]
        /\ SumUnits("ask", Len(ops)) <= maxBackingQuote[1]

SideOps(side) == SelectSeq(ops, LAMBDA o : o.side = side)

\* C5: the batch is the ask-side ops followed by the bid-side ops exactly when
\* there is a backing bid, an existing ask offer, and the top backing bid is
\* at or above the first ask offer's price; otherwise bid-side ops come first
C5_CrossedOrdering ==
    (phase = "updated" /\ ~updateErr) =>
        LET crossed == /\ Len(ob.bids) > 0
                       /\ Len(sellingAOffers) > 0
                       /\ ob.bids[1].price >= sellingAOffers[1].price
        IN  /\ crossed => ops = SideOps("ask") \o SideOps("bid")
            /\ ~crossed => ops = SideOps("bid") \o SideOps("ask")

C5_Witness ==
    /\ phase = "updated"
    /\ Len(ops) >= 2
    /\ ops[1].side = "ask"
    /\ ops[Len(ops)].side = "bid"
    /\ ob.bids[1].price = sellingAOffers[1].price

\* C9: an old offer equal to its target (within epsilon) gets exactly one
\* addLiabilities call in the update and no op in the batch
C9_KeepOffer ==
    (phase = "updated" /\ ~updateErr) =>
        \A side \in Sides : \A i \in 1..Min(Len(OffersOf(side)), Len(OrdersOf(side))) :
            LET old == OldOrderParams(side, OffersOf(side)[i])
                new == OrdersOf(side)[i]
            IN  (/\ old.price = Scale(new.price, priceMultiplier(side), 100)
                 /\ old.volume = Scale(new.volume, 1, volumeDivideBy))
                => /\ Cardinality(LiabilitiesAt(side, i)) = 1
                   /\ OpsAt(side, i) = {}

C9_Witness ==
    /\ phase = "updated"
    /\ ~updateErr
    /\ \E k \in 1..Len(liabilities) :
          /\ liabilities[k].via = "keep"
          /\ liabilities[k].side = "bid"
          /\ OpsAt("bid", liabilities[k].i) = {}
    /\ \E k \in 1..Len(liabilities) : liabilities[k].via = "keep" /\ liabilities[k].side = "ask"
    /\ Len(ops) > 0

\* C10: a failing PreUpdate leaves both stored backing balances as they were
C10_NoPartialBalances ==
    preUpdateErr => (maxBackingBase = prevBackingBase /\ maxBackingQuote = prevBackingQuote)

\* ------------------------------------------------------------------------
\* properties of the fill handler
\* ------------------------------------------------------------------------
\* no HandleFill call is between its commit and its settle
AtRest == \A t \in Handlers : pc[t] \notin {"submit", "settle"}

InCall(t) == pc[t] \in {"addFill", "offset", "submit", "settle", "unlock"}

HedgeSide(t) == Reverse(trade[t].action)

\* C2 as stated: at rest every ledger record has 0 <= committed <= total
C2_CommittedWithinTotal ==
    AtRest => \A a \in OrderActions :
                 /\ 0 <= baseSurplus[a].committed
                 /\ baseSurplus[a].committed <= baseSurplus[a].total

\* C2 amended: at rest every ledger record has committed >= 0 and committed
\* exceeds total by at most half the backing minimum base volume
C2_CommittedWithinHalfMin ==
    AtRest => \A a \in OrderActions :
                 /\ 0 <= baseSurplus[a].committed
                 /\ 2 * (baseSurplus[a].committed - baseSurplus[a].total)
                        <= backingConstraints.MinBaseVolume

C2_Witness ==
    /\ mutex = 0
    /\ \E a \in OrderActions :
          /\ baseSurplus[a].committed > 0
          /\ 2 * (baseSurplus[a].committed - baseSurplus[a].total) = backingConstraints.MinBaseVolume
    /\ \E a \in OrderActions : baseSurplus[a].total < 0

\* C4: at most one call is inside the locked section, and whenever no call is
\* inside it the ledger and the submitted orders are those of the calls run
\* one after the other
C4_Serialized ==
    /\ Cardinality({t \in Handlers : InCall(t)}) <= 1
    /\ (\A t \in Handlers : ~InCall(t)) => (baseSurplus = seqSurplus /\ orders = seqOrders)

C4_Witness ==
    /\ \A t \in Handlers : pc[t] = "idle"
    /\ nfills = MaxFills
    /\ Len(orders) >= 2
    /\ \E a \in OrderActions : baseSurplus[a].committed > 0
    /\ \E a \in OrderActions : baseSurplus[a].total < 0

\* C6: a call whose submission returned an error or a nil transaction id
\* returns an error with total = before + fill volume and
\* committed = before + hedge volume on the hedge side
C6_FailureKeepsCommit ==
    \A t \in Handlers :
        (pc[t] = "unlock" /\ addOrderRet[t] \in {"nil", "err"}) =>
            /\ ret[t] = "error"
            /\ baseSurplus[HedgeSide(t)].total = pre[t].total + trade[t].volume
            /\ baseSurplus[HedgeSide(t)].committed = pre[t].committed + newVolume[t]

C6_Witness ==
    \E t \in Handlers :
        /\ pc[t] = "unlock"
        /\ addOrderRet[t] = "nil"
        /\ ret[t] = "error"
        /\ newVolume[t] > trade[t].volume
        /\ pre[t].committed > 0

\* C7: settle runs only for an accepted order, and a successful call leaves
\* total = before + fill volume - hedge volume and committed = before
C7_SettleAfterAccept ==
    \A t \in Handlers :
        /\ pc[t] = "settle" => addOrderRet[t] = "txid"
        /\ (pc[t] = "unlock" /\ ret[t] = "ok") =>
              /\ addOrderRet[t] = "txid"
              /\ newVolume[t] > 0
              /\ baseSurplus[HedgeSide(t)].total = pre[t].total + trade[t].volume - newVolume[t]
              /\ baseSurplus[HedgeSide(t)].committed = pre[t].committed

C7_Witness ==
    \E t \in Handlers :
        /\ pc[t] = "unlock"
        /\ ret[t] = "ok"
        /\ pre[t].total > 0
        /\ baseSurplus[HedgeSide(t)].total < 0

\* C8: with u = total - committed, the call skips when u < minBase/2, hedges u
\* capped to the backing volume precision when u > minBase, and hedges minBase
\* when minBase/2 <= u <= minBase; with minBase = 1, fills 0.3 and 0.3 on one
\* side give a skip and then an order of volume 1
C8_HedgeVolume ==
    \A t \in Handlers :
        (pc[t] \in {"submit", "settle", "unlock"}) =>
            LET u == uncommitted[t]
                minBase == backingConstraints.MinBaseVolume
            IN  /\ 2 * u < minBase => ret[t] = "skip"
                /\ u > minBase =>
                      /\ ret[t] # "skip"
                      /\ newVolume[t] = u - (u % Pow10(MaxPrecision - backingConstraints.VolumePrecision))
                /\ (2 * u >= minBase /\ u <= minBase) => (ret[t] # "skip" /\ newVolume[t] = minBase)
                /\ (pre[t] = makeAssetSurplus /\ trade[t].volume = 30) => ret[t] = "skip"
                /\ (pre[t] = [total |-> 30, committed |-> 0] /\ trade[t].volume = 30)
                      => (ret[t] # "skip" /\ newVolume[t] = 100)

C8_Witness ==
    \E t \in Handlers :
        /\ pc[t] = "unlock"
        /\ pre[t] = [total |-> 30, committed |-> 0]
        /\ trade[t].volume = 30
        /\ ret[t] = "ok"
        /\ orders = <<[action |-> HedgeSide(t), volume |-> 100, price |-> trade[t].price]>>

\* ------------------------------------------------------------------------
\* properties of the construction
\* ------------------------------------------------------------------------
\* C11: construction fails for every configuration with a negative precision
\* override or a non-positive volume override, with OffsetTrades set or not
C11_InvalidConfigRejected ==
    (made # "none" /\ (\/ (config.PricePrecisionOverride # <<>>
                            /\ config.PricePrecisionOverride[1] < 0)
                       \/ (config.VolumePrecisionOverride # <<>>
                            /\ config.VolumePrecisionOverride[1] < 0)
                       \/ (config.MinBaseVolumeOverride # <<>>
                            /\ config.MinBaseVolumeOverride[1] <= 0)
                       \/ (config.MinQuoteVolumeOverride # <<>>
                            /\ config.MinQuoteVolumeOverride[1] <= 0)))
        => made = "err"

\* ------------------------------------------------------------------------
\* properties of the update against deep books
\* ------------------------------------------------------------------------
\* the modify and create ops of a side in the batch
LevelOps(side) == {k \in 1..Len(ops) : ops[k].side = side /\ ops[k].kind \in {"modify", "create"}}

\* C12: in every update the create ops plus the modify ops of each side are
\* at most 50, however many backing levels and existing offers there are
C12_AtMostFiftyPerSide ==
    phase = "updated" => \A side \in Sides : Cardinality(LevelOps(side)) <= 50

\* a book of more than 50 bids was mirrored into exactly 50 level ops
C12_Witness ==
    /\ phase = "updated"
    /\ Len(ob.bids) > 50
    /\ Cardinality(LevelOps("bid")) = 50
    /\ Len(ob.asks) > 50
    /\ Len(sellingAOffers) > 50
    /\ Cardinality(LevelOps("ask")) = 50

\* ------------------------------------------------------------------------
\* properties of the balance coordinator
\* ------------------------------------------------------------------------
\* the units a checkBalance call asks for
AdditionalUnits(c) == IF c.isBackingBuy THEN (c.vol * c.price) \div Unit ELSE c.vol

\* C13: within a cycle placedUnits never decreases and never exceeds the
\* backing balance; a call is rejected, leaving placedUnits as it was, exactly
\* when placedUnits + additional > backingBalance, and otherwise adds additional
C13_CheckBalance ==
    /\ \A k \in 1..Len(checkLog) :
          /\ checkLog[k].ok = ~(checkLog[k].before + AdditionalUnits(checkLog[k])
                                    > checkLog[k].backingBalance)
          /\ checkLog[k].after = IF checkLog[k].ok
                                 THEN checkLog[k].before + AdditionalUnits(checkLog[k])
                                 ELSE checkLog[k].before
          /\ checkLog[k].before <= checkLog[k].after
          /\ checkLog[k].after <= checkLog[k].backingBalance
          /\ checkLog[k].before = IF k = 1 THEN 0 ELSE checkLog[k - 1].after
    /\ (coordinator # <<>> /\ checkLog # <<>>)
          => coordinator[1].placedUnits = checkLog[Len(checkLog)].after

\* a level was admitted, the next rejected, and a later smaller one admitted,
\* using the balance up exactly
C13_Witness ==
    /\ Len(checkLog) = 3
    /\ checkLog[1].ok
    /\ ~checkLog[2].ok
    /\ checkLog[3].ok
    /\ AdditionalUnits(checkLog[3]) < AdditionalUnits(checkLog[2])
    /\ checkLog[3].after = checkLog[3].backingBalance

\* ------------------------------------------------------------------------
\* properties of the update cycle interleaved with fills
\* ------------------------------------------------------------------------
\* C14: every step of PreUpdate, UpdateWithOps and PostUpdate, in any
\* interleaving with HandleFill calls, leaves the total and the committed
\* value of both ledger records as they were
C14_UpdateLeavesLedger ==
    [][(updateVars' # updateVars)
          => \A a \in OrderActions :
                /\ baseSurplus'[a].total = baseSurplus[a].total
                /\ baseSurplus'[a].committed = baseSurplus[a].committed]_vars

\* an update has run while a handler holds the mutex with a committed volume
\* in the ledger
C14_Witness ==
    /\ phase = "updated"
    /\ ops # <<>>
    /\ \E t \in Handlers : pc[t] = "settle" /\ mutex = t
    /\ baseSurplus["sell"].committed # 0
    /\ baseSurplus["sell"].total # 0

\* ------------------------------------------------------------------------
\* properties of the modify path
\* ------------------------------------------------------------------------
\* the checkBalance calls of the modify loop that were rejected
RejectedModifies ==
    {k \in 1..Len(balanceChecks) : balanceChecks[k].path = "modify" /\ ~balanceChecks[k].ok}

\* C15: when doModifyOffer returned a modify op for old offer i and the
\* coordinator rejected the level, the batch has no modify op and no delete op
\* for old offer i
C15_RejectedModifyKeepsOffer ==
    phase = "updated" =>
        \A k \in RejectedModifies :
            \A j \in OpsAt(balanceChecks[k].side, balanceChecks[k].i) :
                ops[j].kind \notin {"modify", "delete"}

\* a modify was rejected in an update that succeeded with other ops in the batch
C15_Witness ==
    /\ phase = "updated"
    /\ ~updateErr
    /\ ops # <<>>
    /\ RejectedModifies # {}

\* the calls of the modify or create function for a level
CallsAt(fn, side, i) ==
    {k \in 1..Len(sdexCalls) : sdexCalls[k].fn = fn /\ sdexCalls[k].side = side
                                   /\ sdexCalls[k].i = i}

\* old offer i of a side has a target that differs from it and whose volume,
\* capped to the primary volume precision, is below the backing minimum
ShrunkBelowMin(side, i) ==
    /\ i <= Min(Len(OffersOf(side)), Len(OrdersOf(side)))
    /\ ~sameOrderParams(side, OffersOf(side)[i], OrdersOf(side)[i])
    /\ NumberByCappingPrecision(OrdersOf(side)[i].volume \div volumeDivideBy,
                                primaryConstraints.VolumePrecision)
           < backingConstraints.MinBaseVolume

\* C16: with hedging, an old offer whose target differs and has a capped
\* volume below the backing minBaseVolume gets exactly one delete and no modify
\* or create op in the batch, and the modify function is not called for it
C16_ShrinkBelowMinDeletes ==
    (phase = "updated" /\ offsetTrades) =>
        \A side \in Sides : \A i \in 1..Len(OffersOf(side)) :
            ShrunkBelowMin(side, i) =>
                /\ CallsAt("modify", side, i) = {}
                /\ ~updateErr =>
                      /\ Cardinality(OpsAt(side, i)) = 1
                      /\ \A k \in OpsAt(side, i) : ops[k].kind = "delete"

\* a successful hedging update deleted a level that shrank below the minimum
\* and modified another one
C16_Witness ==
    /\ phase = "updated"
    /\ offsetTrades
    /\ ~updateErr
    /\ \E side \in Sides : \E i \in 1..Len(OffersOf(side)) : ShrunkBelowMin(side, i)
    /\ \E k \in 1..Len(ops) : ops[k].kind = "modify"

\* the calls of the modify function in the last update
ModifyCalls == {k \in 1..Len(sdexCalls) : sdexCalls[k].fn = "modify"}

\* C17: when the modify function returns a nil op without an error, the old
\* offer gets exactly one delete, no modify op and no addLiabilities call
C17_NilModifyDeletes ==
    (phase = "updated" /\ modifyRet = "nil") =>
        \A k \in ModifyCalls :
            /\ LiabilitiesAt(sdexCalls[k].side, sdexCalls[k].i) = {}
            /\ ~updateErr =>
                  /\ Cardinality(OpsAt(sdexCalls[k].side, sdexCalls[k].i)) = 1
                  /\ \A j \in OpsAt(sdexCalls[k].side, sdexCalls[k].i) : ops[j].kind = "delete"

\* the modify function was called on both sides and returned nil, in an update
\* that succeeded
C17_Witness ==
    /\ phase = "updated"
    /\ ~updateErr
    /\ modifyRet = "nil"
    /\ \E k \in ModifyCalls : sdexCalls[k].side = "bid"
    /\ \E k \in ModifyCalls : sdexCalls[k].side = "ask"

\* ------------------------------------------------------------------------
\* properties of the remaining levels and offers
\* ------------------------------------------------------------------------
\* the create ops of a side in the batch and the calls of the create function
CreateOps(side) == {k \in 1..Len(ops) : ops[k].side = side /\ ops[k].kind = "create"}
CreateCalls(side) ==
    {k \in 1..Len(sdexCalls) : sdexCalls[k].side = side /\ sdexCalls[k].fn = "create"}

\* C18: on a side with m old offers and n backing levels (after the cut),
\* n < m gives exactly one delete op for each old offer n+1..m and no create;
\* n >= m attempts creates only for the levels m+1..n
C18_RemainingLevels ==
    phase = "updated" =>
        \A side \in Sides :
            IF Len(OrdersOf(side)) < Len(OffersOf(side))
            THEN /\ CreateCalls(side) = {}
                 /\ CreateOps(side) = {}
                 /\ ~updateErr =>
                       \A i \in Len(OrdersOf(side)) + 1..Len(OffersOf(side)) :
                           /\ Cardinality(OpsAt(side, i)) = 1
                           /\ \A k \in OpsAt(side, i) : ops[k].kind = "delete"
            ELSE /\ \A k \in CreateCalls(side) :
                       sdexCalls[k].i \in Len(OffersOf(side)) + 1..Len(OrdersOf(side))
                 /\ \A k \in CreateOps(side) :
                       ops[k].i \in Len(OffersOf(side)) + 1..Len(OrdersOf(side))

\* one side had more offers than levels and deleted the rest, the other had
\* more levels than offers and created one
C18_Witness ==
    /\ phase = "updated"
    /\ ~updateErr
    /\ Len(OrdersOf("bid")) < Len(OffersOf("bid"))
    /\ Len(OrdersOf("bid")) > 0
    /\ Len(OffersOf("ask")) > 0
    /\ CreateOps("ask") # {}

\* ------------------------------------------------------------------------
\* properties of the prices and volumes of the ops
\* ------------------------------------------------------------------------
\* C19: every create or modify op carries the backing price of its level times
\* (1 - perLevelSpread) on the bid side, (1 + perLevelSpread) on the ask side,
\* truncated to the primary price precision
C19_OpPrices ==
    phase = "updated" =>
        \A k \in 1..Len(ops) :
            ops[k].kind \in {"create", "modify"} =>
                ops[k].price =
                    NumberByCappingPrecision(
                        (OrdersOf(ops[k].side)[ops[k].i].price
                            * (IF ops[k].side = "bid" THEN 100 - perLevelSpread
                               ELSE 100 + perLevelSpread)) \div 100,
                        primaryConstraints.PricePrecision)

\* C20: every create or modify op carries the backing volume of its level
\* divided by volumeDivideBy, truncated to the primary volume precision
C20_OpVolumes ==
    phase = "updated" =>
        \A k \in 1..Len(ops) :
            ops[k].kind \in {"create", "modify"} =>
                ops[k].volume =
                    NumberByCappingPrecision(
                        OrdersOf(ops[k].side)[ops[k].i].volume \div volumeDivideBy,
                        primaryConstraints.VolumePrecision)

\* ------------------------------------------------------------------------
\* properties of the liability calls
\* ------------------------------------------------------------------------
\* C21: in an update that returns a batch, every addLiabilities call is for a
\* level whose offer was kept unchanged or whose create or modify op is part
\* of the batch; none is made for a modify the balance coordinator rejected
C21_LiabilitiesOnlyForBatch ==
    (phase = "updated" /\ ~updateErr) =>
        \A k \in 1..Len(liabilities) :
            \/ liabilities[k].via = "keep"
            \/ \E j \in OpsAt(liabilities[k].side, liabilities[k].i) :
                  ops[j].kind = liabilities[k].via

\* ------------------------------------------------------------------------
\* properties of single HandleFill calls
\* ------------------------------------------------------------------------
\* the orders the running call of handler t has handed to the backing venue
OrdersOfCall(t) == Len(orders) - ordersBefore[t]

\* C22: a call whose hedge volume computation says ok=false returns success
\* with no order submitted, committed unchanged and total increased by exactly
\* the fill volume; every call submits at most one order
C22_SkipAccumulates ==
    \A t \in Handlers :
        /\ InCall(t) => OrdersOfCall(t) \in {0, 1}
        /\ (pc[t] = "unlock"
              /\ 2 * (pre[t].total + trade[t].volume - pre[t].committed)
                     < backingConstraints.MinBaseVolume) =>
              /\ ret[t] = "skip"
              /\ OrdersOfCall(t) = 0
              /\ baseSurplus[HedgeSide(t)].committed = pre[t].committed
              /\ baseSurplus[HedgeSide(t)].total = pre[t].total + trade[t].volume

\* a call skipped after earlier calls had submitted orders and left a
\* committed volume behind
C22_Witness ==
    \E t \in Handlers :
        /\ pc[t] = "unlock"
        /\ ret[t] = "skip"
        /\ Len(orders) >= 1
        /\ pre[t].committed > 0
        /\ trade[t].volume > 0

\* C23: every step of a HandleFill call for a trade of side X leaves the
\* ledger record keyed by X as it was, and an order it submits has the side
\* opposite to X; only the record of the opposite side can change
C23_OtherSideUntouched ==
    [][\A t \in Handlers :
          (pc'[t] # pc[t] /\ pc[t] # "idle") =>
              /\ baseSurplus'[trade[t].action] = baseSurplus[trade[t].action]
              /\ orders' # orders =>
                    /\ Len(orders') = Len(orders) + 1
                    /\ orders'[Len(orders')].action
                          = (IF trade[t].action = "buy" THEN "sell" ELSE "buy")]_vars

\* a call for a buy trade has hedged successfully while the record of the buy
\* side holds volume from fills of the other side, one of them failed
C23_Witness ==
    \E t \in Handlers :
        /\ pc[t] = "unlock"
        /\ ret[t] = "ok"
        /\ trade[t].action = "buy"
        /\ baseSurplus["buy"].total > 0
        /\ baseSurplus["buy"].committed > 0
        /\ orders[Len(orders)].action = "sell"

\* ------------------------------------------------------------------------
\* properties of the create path
\* ------------------------------------------------------------------------
\* the backing levels of a side that have no old offer and whose divided
\* volume is below the backing minimum
SmallNewLevels(side) ==
    {i \in Len(OffersOf(side)) + 1..Len(OrdersOf(side)) :
        OrdersOf(side)[i].volume \div volumeDivideBy < backingConstraints.MinBaseVolume}

ChecksOf(side) == SelectSeq(balanceChecks, LAMBDA c : c.side = side)

\* C24: a backing level whose divided volume is below the backing
\* minBaseVolume gets no create op, with hedging or without, and does not
\* advance placedUnits: the coordinator is not asked about it, and every
\* checkBalance call of a side starts from the units the previous one left
C24_SmallLevelsSkipped ==
    phase = "updated" =>
        \A side \in Sides :
            /\ \A i \in SmallNewLevels(side) :
                  /\ \A k \in OpsAt(side, i) : ops[k].kind # "create"
                  /\ CallsAt("create", side, i) = {}
                  /\ \A k \in 1..Len(balanceChecks) :
                        ~(balanceChecks[k].side = side /\ balanceChecks[k].i = i)
            /\ \A k \in 1..Len(ChecksOf(side)) :
                  ChecksOf(side)[k].before = IF k = 1 THEN 0 ELSE ChecksOf(side)[k - 1].after

\* in a hedging update a small level was skipped and the level after it was
\* created, the coordinator advancing by that level alone
C24_Witness ==
    /\ phase = "updated"
    /\ ~updateErr
    /\ offsetTrades
    /\ \E side \in Sides :
          /\ 1 \in SmallNewLevels(side)
          /\ \E k \in OpsAt(side, 2) : ops[k].kind = "create"
          /\ Len(ChecksOf(side)) = 1
          /\ ChecksOf(side)[1].ok

\* ------------------------------------------------------------------------
\* properties of consecutive updates
\* ------------------------------------------------------------------------
\* the update and the one before it were given the same book, offers, stored
\* balances and answers of the primary venue
SameAsLastUpdate ==
    /\ lastUpdate # <<>>
    /\ ob.bids # <<>>
    /\ lastUpdate[1].ob = ob
    /\ lastUpdate[1].buyingAOffers = buyingAOffers
    /\ lastUpdate[1].sellingAOffers = sellingAOffers
    /\ lastUpdate[1].maxBackingBase = maxBackingBase
    /\ lastUpdate[1].maxBackingQuote = maxBackingQuote
    /\ lastUpdate[1].modifyRet = modifyRet
    /\ lastUpdate[1].createRet = createRet

\* C25: each side of every update starts from a coordinator with
\* placedUnits = 0, and an update given the same offers, backing book and
\* stored balances as the update before it returns the same batch
C25_FreshCoordinator ==
    phase = "updated" =>
        /\ \A side \in Sides : ChecksOf(side) # <<>> => ChecksOf(side)[1].before = 0
        /\ SameAsLastUpdate => (ops = lastUpdate[1].ops /\ updateErr = lastUpdate[1].updateErr)

\* the same update ran twice, each time admitting one level and rejecting the next
C25_Witness ==
    /\ phase = "updated"
    /\ SameAsLastUpdate
    /\ ~updateErr
    /\ ops # <<>>
    /\ Len(ChecksOf("bid")) = 2
    /\ ChecksOf("bid")[1].ok
    /\ ~ChecksOf("bid")[2].ok

\* ------------------------------------------------------------------------
\* properties of sequences of HandleFill calls
\* ------------------------------------------------------------------------
\* no call holds the mutex or has started on the ledger
NoCallInProgress == \A t \in Handlers : pc[t] \in {"idle", "lock"}

\* C26: if every hedge submission succeeds, then whenever no call is in
\* progress each side has committed = 0 and -minBase/2 <= total < minBase/2
C26_HedgedWithinHalfMin ==
    NoCallInProgress =>
        \A a \in OrderActions :
            /\ baseSurplus[a].committed = 0
            /\ 0 - backingConstraints.MinBaseVolume <= 2 * baseSurplus[a].total
            /\ 2 * baseSurplus[a].total < backingConstraints.MinBaseVolume

\* after three fills one side is over-hedged by exactly half the minimum and
\* the other holds an unhedged fill
C26_Witness ==
    /\ NoCallInProgress
    /\ nfills = MaxFills
    /\ \E a \in OrderActions :
          /\ 2 * baseSurplus[a].total = 0 - backingConstraints.MinBaseVolume
          /\ baseSurplus[Reverse(a)].total > 0
    /\ orders # <<>>

\* C27: once submissions on a side have failed with hedge volumes adding up
\* to v, committed on that side is at least v in every later state, whatever
\* calls follow
C27_FailedCommitStays ==
    \A a \in OrderActions : baseSurplus[a].committed >= failedVolume[a]

\* after a failed submission on a side, a later call on the same side hedged
\* successfully and is about to return
C27_Witness ==
    \E t \in Handlers :
        /\ pc[t] = "unlock"
        /\ ret[t] = "ok"
        /\ failedVolume[HedgeSide(t)] > 0
        /\ baseSurplus[HedgeSide(t)].committed = failedVolume[HedgeSide(t)]

\* C28: a call that has returned does not hold the mutex, whatever its return
\* path, and every call waiting for the mutex eventually gets it and returns
C28_MutexReleased ==
    /\ [](\A t \in Handlers : pc[t] \in {"idle", "lock"} => mutex # t)
    /\ \A t \in Handlers : (pc[t] = "lock") ~> (pc[t] = "idle")

\* a call waits for the mutex while the call holding it is returning an
\* error after a failed submission
C28_Witness ==
    \E t \in Handlers : \E u \in Handlers :
        /\ pc[t] = "lock"
        /\ pc[u] = "unlock"
        /\ ret[u] = "error"
        /\ mutex = u

\* ------------------------------------------------------------------------
\* properties of the size of the batch
\* ------------------------------------------------------------------------
Max(a, b) == IF a > b THEN a ELSE b

\* C29: in the batch each existing offer is the target of at most one op, a
\* modify or a delete, and a side with m old offers and n backing levels
\* (after the cut) has at most max(m, n) ops
C29_OneOpPerOffer ==
    phase = "updated" =>
        \A side \in Sides :
            /\ \A i \in 1..Len(OffersOf(side)) :
                  /\ Cardinality(OpsAt(side, i)) <= 1
                  /\ \A k \in OpsAt(side, i) : ops[k].kind \in {"modify", "delete"}
            /\ Len(SideOps(side)) <= Max(Len(OffersOf(side)), Len(OrdersOf(side)))

\* one side modified an offer and deleted the next, the other has as many
\* ops as backing levels
C29_Witness ==
    /\ phase = "updated"
    /\ ~updateErr
    /\ Len(OffersOf("bid")) = 2
    /\ \E k \in OpsAt("bid", 1) : ops[k].kind = "modify"
    /\ \E k \in OpsAt("bid", 2) : ops[k].kind = "delete"
    /\ Len(OrdersOf("ask")) = 2
    /\ Len(SideOps("ask")) = 2

====
